---- MODULE Spec2Model ----
(***************************************************************************)
(* A model of src/src/freshdesk_mcp/server.py: the Link-header codec, the  *)
(* agent identity resolvers, the filter compiler with its flat parameter   *)
(* encoding, and the ticket query operations built on them.                *)
(*                                                                         *)
(* One caller invokes one operation at a time.  An operation runs from its *)
(* call up to the next awaited HTTP request (pc = "await"), the upstream   *)
(* service answers, and the operation continues up to its next request or  *)
(* its return (pc = "done").  reqs counts the requests issued per endpoint *)
(* since the call; hist keeps what the properties need of the answers     *)
(* received since the call.                                                *)
(*                                                                         *)
(* Python text that the code inspects (agent names, query values) is a     *)
(* sequence of one-character strings; text the code only passes on or     *)
(* compares as a whole (field names, messages) is a TLA+ string.           *)
(***************************************************************************)
EXTENDS Integers, Sequences, FiniteSets, TLC

VARIABLES op, pc, args, pending, reqs, filters, frame, seen, result, hist

vars == <<op, pc, args, pending, reqs, filters, frame, seen, result, hist>>

(***************************************************************************)
(* Bounds of the model.                                                    *)
(***************************************************************************)
MaxLinks == 2      \* entries in a Link header
MaxAgents == 2     \* agent records in one directory page
MaxFetches == 100  \* directory requests followed in one resolution
MaxQH == 2         \* conditions in a caller-supplied query_hash
MaxTickets == 2    \* tickets in one upstream listing

(***************************************************************************)
(* Python values.                                                          *)
(***************************************************************************)
\* None where the other values are non-negative integers (a page number
\* matched by \d+ is never negative).
None == -1

\* bool(x) of an Optional[int]: None and 0 are falsy.
Truthy(x) == x # None /\ x # 0

\* A scalar: None, an int, a str the code inspects (s, its characters), or a
\* str the code only passes on (y).
NoneV == [t |-> "none", i |-> 0, s |-> <<>>, y |-> ""]
IntV(n) == [t |-> "int", i |-> n, s |-> <<>>, y |-> ""]
StrV(s) == [t |-> "str", i |-> 0, s |-> s, y |-> ""]
LitV(y) == [t |-> "str", i |-> 0, s |-> <<>>, y |-> y]

\* bool(x) of a scalar: None, 0 and "" are falsy.
TruthyV(v) ==
  CASE v.t = "none" -> FALSE
    [] v.t = "int" -> v.i # 0
    [] OTHER -> v.s # <<>> \/ v.y # ""

Digits == {"0", "1", "2"}

DigitValue(c) == CASE c = "0" -> 0 [] c = "1" -> 1 [] OTHER -> 2

RECURSIVE DecimalValue(_)
DecimalValue(s) ==
  IF s = <<>> THEN 0
  ELSE 10 * DecimalValue(SubSeq(s, 1, Len(s) - 1)) + DigitValue(s[Len(s)])

AllDigits(s) == s # <<>> /\ \A k \in 1..Len(s) : s[k] \in Digits

\* int(s) succeeds: an optional sign, then at least one digit.
IsIntLiteral(s) ==
  \/ AllDigits(s)
  \/ /\ Len(s) >= 2
     /\ s[1] \in {"-", "+"}
     /\ AllDigits(Tail(s))

\* int(s) for a string that is an integer literal.
ParseInt(s) ==
  IF s[1] = "-" THEN 0 - DecimalValue(Tail(s))
  ELSE IF s[1] = "+" THEN DecimalValue(Tail(s))
  ELSE DecimalValue(s)

\* str.lower() of one character and of a string.
LowerChar(c) == CASE c = "A" -> "a" [] c = "J" -> "j" [] OTHER -> c

Lower(s) == [k \in 1..Len(s) |-> LowerChar(s[k])]

\* needle in hay
Contains(hay, needle) ==
  \E k \in 0..(Len(hay) - Len(needle)) :
    SubSeq(hay, k + 1, k + Len(needle)) = needle

(***************************************************************************)
(* Link headers.  A header is the sequence of its comma-separated entries  *)
(* (the empty sequence is the empty string).  An entry either matches      *)
(* <(.+?)>;\s*rel="(.+?)" (wf) or not; the URL of a matching entry is the  *)
(* sequence of its query components key=value, where a value either starts *)
(* with digits (num, the digits' value) or does not.                       *)
(***************************************************************************)
QP(key, n) == [key |-> key, digits |-> TRUE, num |-> n]
QPText(key) == [key |-> key, digits |-> FALSE, num |-> 0]

Link(url, rel) == [wf |-> TRUE, url |-> url, rel |-> rel]
BadLink == [wf |-> FALSE, url |-> <<>>, rel |-> ""]

\* re.search(r'page=(\d+)', url): the first component whose text contains
\* "page=" followed by a digit; "per_page=100" is such a component.
PageComponents(url) ==
  {k \in 1..Len(url) : url[k].key \in {"page", "per_page"} /\ url[k].digits}

HasPage(url) == PageComponents(url) # {}

PageOf(url) ==
  url[CHOOSE k \in PageComponents(url) : \A j \in PageComponents(url) : k <= j].num

\* The loop body of parse_link_header: one entry applied to the dictionary.
ApplyLink(pagination, link) ==
  IF link.wf /\ HasPage(link.url)
  THEN [r \in DOMAIN pagination \cup {link.rel} |->
          IF r = link.rel THEN PageOf(link.url) ELSE pagination[r]]
  ELSE pagination

RECURSIVE ApplyLinks(_, _)
ApplyLinks(pagination, links) ==
  IF links = <<>> THEN pagination
  ELSE ApplyLinks(ApplyLink(pagination, Head(links)), Tail(links))

parse_link_header(link_header) ==
  LET pagination == [r \in {"next", "prev"} |-> None]
  IN IF link_header = <<>> THEN pagination
     ELSE ApplyLinks(pagination, link_header)

\* dict.get(key): None for a missing key.
Get(d, key) == IF key \in DOMAIN d THEN d[key] ELSE None

(***************************************************************************)
(* The upstream service.  An answer to a request is a network failure      *)
(* ("net": client.get raises), a non-2xx status with a JSON error body     *)
(* ("status") or with a body that is not JSON ("status_nojson"), a 2xx     *)
(* answer whose body is not JSON ("json"), a 2xx answer whose JSON has not *)
(* the shape the code expects ("shape"), or a good answer ("ok").          *)
(***************************************************************************)
Endpoints ==
  {"tickets", "filter", "ticket", "search", "copilot", "agents", "agent", "me"}

Failures == {"net", "status", "status_nojson", "json", "shape"}

ZeroReqs == [e \in Endpoints |-> 0]

Issue(r, e) == [r EXCEPT ![e] = @ + 1]

NoReq == [kind |-> "none"]

NoArgs == [none |-> TRUE]

NoResult == [kind |-> "none"]

NoFrame == [kind |-> "none"]

\* What an operation hands back: a dictionary with an "error" entry, or an
\* exception that leaves the operation.
ErrorR(msg) == [kind |-> "error", error |-> msg]
RaisedR(exc) == [kind |-> "raised", exc |-> exc]

(***************************************************************************)
(* _resolve_agent_name_to_id                                               *)
(***************************************************************************)
LoopLimit == 100

AbsentR == [kind |-> "absent"]
IdR(n) == [kind |-> "id", id |-> n]

Agent(id, name, email) == [id |-> id, name |-> name, email |-> email]

\* One agent record against the query: the contact name, then the contact
\* email; a missing or empty field (<<>>) is skipped.
AgentMatches(agent, agent_name) ==
  \/ agent.name # <<>> /\ Contains(Lower(agent.name), Lower(agent_name))
  \/ agent.email # <<>> /\ Contains(Lower(agent.email), Lower(agent_name))

MatchingAgents(agents, agent_name) ==
  {k \in 1..Len(agents) : AgentMatches(agents[k], agent_name)}

FirstMatch_LastWins(agents, agent_name) ==
  agents[CHOOSE k \in MatchingAgents(agents, agent_name) :
           \A j \in MatchingAgents(agents, agent_name) : j <= k]

FirstMatch(agents, agent_name) ==
  agents[CHOOSE k \in MatchingAgents(agents, agent_name) :
           \A j \in MatchingAgents(agents, agent_name) : k <= j]

\* The guard of the while loop.
LoopGuard(page) == page < LoopLimit

\* ResolveStart without the numeric short-circuit.
ResolveStart_NoShortCircuit(agent_name) ==
  IF agent_name = <<>> THEN [ret |-> TRUE, value |-> AbsentR, page |-> 0]
  ELSE IF LoopGuard(1) THEN [ret |-> FALSE, value |-> AbsentR, page |-> 1]
  ELSE [ret |-> TRUE, value |-> AbsentR, page |-> 0]

\* The part of the function before the loop: what it returns at once, or
\* the first page to fetch.
ResolveStart(agent_name) ==
  IF agent_name = <<>> THEN [ret |-> TRUE, value |-> AbsentR, page |-> 0]
  ELSE IF IsIntLiteral(agent_name)
  THEN [ret |-> TRUE, value |-> IdR(ParseInt(agent_name)), page |-> 0]
  ELSE IF LoopGuard(1) THEN [ret |-> FALSE, value |-> AbsentR, page |-> 1]
  ELSE [ret |-> TRUE, value |-> AbsentR, page |-> 0]

ResolveStep_RetriesOnFailure(agent_name, resp) ==
  IF resp.outcome # "ok" THEN [ret |-> FALSE, value |-> AbsentR, page |-> 1]
  ELSE IF resp.agents = <<>> THEN [ret |-> TRUE, value |-> AbsentR, page |-> 0]
  ELSE IF MatchingAgents(resp.agents, agent_name) # {}
  THEN [ret |-> TRUE, value |-> IdR(FirstMatch(resp.agents, agent_name).id),
        page |-> 0]
  ELSE LET next == Get(parse_link_header(resp.link), "next")
       IN IF Truthy(next) /\ LoopGuard(next)
          THEN [ret |-> FALSE, value |-> AbsentR, page |-> next]
          ELSE [ret |-> TRUE, value |-> AbsentR, page |-> 0]

\* One iteration of the loop on the answer to the request for a page: the
\* value returned, or the next page to fetch.
ResolveStep(agent_name, resp) ==
  IF resp.outcome # "ok" THEN [ret |-> TRUE, value |-> AbsentR, page |-> 0]
  ELSE IF resp.agents = <<>> THEN [ret |-> TRUE, value |-> AbsentR, page |-> 0]
  ELSE IF MatchingAgents(resp.agents, agent_name) # {}
  THEN [ret |-> TRUE, value |-> IdR(FirstMatch(resp.agents, agent_name).id),
        page |-> 0]
  ELSE LET next == Get(parse_link_header(resp.link), "next")
       IN IF Truthy(next) /\ LoopGuard(next)
          THEN [ret |-> FALSE, value |-> AbsentR, page |-> next]
          ELSE [ret |-> TRUE, value |-> AbsentR, page |-> 0]

\* The inputs and the directory the model draws from.
NameInputs ==
  { <<>>, <<"1">>, <<"1", "2">>, <<"-", "1">>, <<"0", "1">>,
    <<"J", "A">>, <<"z">>, <<"1", "a">>, <<"a">> }

AgentUniverse ==
  { Agent(777, <<"J", "a">>, <<"j", "1">>),
    Agent(8, <<>>, <<"A", "z">>),
    Agent(5, <<"1">>, <<>>) }

RECURSIVE SeqsUpTo(_, _)
SeqsUpTo(S, n) ==
  IF n = 0 THEN {<<>>}
  ELSE LET shorter == SeqsUpTo(S, n - 1)
       IN shorter \cup {Append(q, x) : q \in shorter, x \in S}

AgentLists == SeqsUpTo(AgentUniverse, MaxAgents)

NextLink(n) == Link(<<QP("page", n)>>, "next")
PrevLink(n) == Link(<<QP("page", n)>>, "prev")

\* Link headers of a directory answer to the request for a page: none, a
\* next page equal to, below, just above and far above the page, page 0, a
\* URL that also carries per_page, and a relation other than next.
DirHeaders(page) ==
  { <<>>,
    <<NextLink(page)>>,
    <<NextLink(1)>>,
    <<NextLink(page + 1)>>,
    <<NextLink(250)>>,
    <<NextLink(0)>>,
    <<Link(<<QP("per_page", 100), QP("page", page + 1)>>, "next")>>,
    <<Link(<<QP("page", page + 1)>>, "last")>> }

FailedResponse(outcome) == [outcome |-> outcome, agents |-> <<>>, link |-> <<>>]

DirResponses(page) ==
  {FailedResponse(o) : o \in {"net", "status", "json"}}
    \cup {[outcome |-> "ok", agents |-> a, link |-> h] :
            a \in AgentLists, h \in DirHeaders(page)}

\* What is kept of the answers of a call: of the directory answer on which
\* the resolution returned its outcome, its records and whether its Link
\* header has a next entry; whether a directory request was issued after an
\* answer holding a record that mentions the query; whether one was issued
\* after an answer that ends the paging; and the id the who-am-I lookup
\* yielded.
NoAnswer == [outcome |-> "none", agents |-> <<>>, next |-> FALSE]

NoHist ==
  [final |-> NoAnswer, afterMatch |-> FALSE, afterStop |-> FALSE, me |-> None]

\* text mentions query: some stretch of it equals the query up to case.
Mentions(text, query) ==
  \E i \in 1..Len(text) :
    \E j \in i..Len(text) :
      /\ j - i + 1 = Len(query)
      /\ \A k \in 0..(j - i) : LowerChar(text[i + k]) = LowerChar(query[k + 1])

RecordMentions(agent, query) ==
  Mentions(agent.name, query) \/ Mentions(agent.email, query)

MentioningRecords(agents, query) ==
  {k \in 1..Len(agents) : RecordMentions(agents[k], query)}

\* The answer has a Link entry with relation next.
HasNextEntry(link) == \E k \in 1..Len(link) : link[k].rel = "next"

Kept(resp) ==
  [outcome |-> resp.outcome, agents |-> resp.agents,
   next |-> HasNextEntry(resp.link)]

\* The answer ends the paging: a failed request, an empty page, or a page
\* without a record that mentions the query and without a next entry.
EndsPaging(kept, query) ==
  \/ kept.outcome \in {"net", "status", "json"}
  \/ kept.outcome = "ok" /\ kept.agents = <<>>
  \/ /\ kept.outcome = "ok"
     /\ MentioningRecords(kept.agents, query) = {}
     /\ ~kept.next

Returned(h, resp) == [h EXCEPT !.final = Kept(resp)]

Continued(h, query, resp) ==
  [h EXCEPT !.afterMatch = @ \/ MentioningRecords(resp.agents, query) # {},
            !.afterStop = @ \/ EndsPaging(Kept(resp), query)]

ResolveCall(agent_name) ==
  /\ pc = "idle"
  /\ op' = "_resolve_agent_name_to_id"
  /\ args' = [agent_name |-> agent_name]
  /\ LET s == ResolveStart(agent_name)
     IN IF s.ret
        THEN /\ pc' = "done"
             /\ result' = s.value
             /\ pending' = NoReq
             /\ reqs' = ZeroReqs
        ELSE /\ pc' = "await"
             /\ result' = NoResult
             /\ pending' = [kind |-> "agents", page |-> s.page]
             /\ reqs' = Issue(ZeroReqs, "agents")
  /\ seen' = {}
  /\ hist' = NoHist
  /\ UNCHANGED <<filters, frame>>

ResolveRespond(resp) ==
  /\ pc = "await"
  /\ op = "_resolve_agent_name_to_id"
  /\ pending.kind = "agents"
  /\ reqs["agents"] < MaxFetches
  /\ LET s == ResolveStep(args.agent_name, resp)
     IN IF s.ret
        THEN /\ pc' = "done"
             /\ result' = s.value
             /\ pending' = NoReq
             /\ reqs' = reqs
             /\ hist' = Returned(hist, resp)
        ELSE /\ pc' = "await"
             /\ result' = NoResult
             /\ pending' = [kind |-> "agents", page |-> s.page]
             /\ reqs' = Issue(reqs, "agents")
             /\ hist' = Continued(hist, args.agent_name, resp)
  /\ seen' = seen \cup {resp.outcome}
  /\ UNCHANGED <<op, args, filters, frame>>

(***************************************************************************)
(* filter_tickets: the filter compiler.                                    *)
(*                                                                         *)
(* A condition is a dictionary with the keys condition, operator, type and *)
(* value; a value is a list of scalars (isList) or one scalar (items of    *)
(* length one).                                                            *)
(***************************************************************************)
ListOf(items) == [isList |-> TRUE, items |-> items]
ScalarOf(v) == [isList |-> FALSE, items |-> <<v>>]

Cond(condition, operator, type, value) ==
  [condition |-> condition, operator |-> operator, type |-> type, value |-> value]

\* int(x) succeeds for an int and for a str that is an integer literal.
CanInt(v) == v.t = "int" \/ (v.t = "str" /\ v.y = "" /\ IsIntLiteral(v.s))

IntOf(v) == IF v.t = "int" THEN v ELSE IntV(ParseInt(v.s))

\* ValidatePagination without the upper bound of per_page.
ValidatePagination_NoUpperBound(page, per_page) ==
  IF page < 1 THEN "Page number must be greater than or equal to 1"
  ELSE IF per_page < 1 THEN "Page size must be between 1 and 100"
  ELSE ""

\* The checks of page and per_page: the error message, or "" when both pass.
ValidatePagination(page, per_page) ==
  IF page < 1 THEN "Page number must be greater than or equal to 1"
  ELSE IF per_page < 1 \/ per_page > 100 THEN "Page size must be between 1 and 100"
  ELSE ""

\* The responder_id branch.
ResponderFilters(responder_id) ==
  IF TruthyV(responder_id)
  THEN [ret |-> FALSE,
        filters |-> <<Cond("responder_id", "is_in", "default",
                           ListOf(<<responder_id>>))>>]
  ELSE [ret |-> TRUE, filters |-> <<>>]

HelperFilter(name, v) ==
  IF v.t # "none"
  THEN <<Cond(name, "is_in", "default", ListOf(<<IntOf(v)>>))>>
  ELSE <<>>

\* filters.extend(query_hash) under "if query_hash": None and [] add nothing.
MergeQueryHash(fs, query_hash) ==
  IF query_hash.some /\ query_hash.list # <<>> THEN fs \o query_hash.list ELSE fs

\* A key of the params dictionary: a plain name (idx and sub are None), or
\* query_hash[idx][part], or query_hash[idx][part][sub].
Key(idx, part, sub) == [idx |-> idx, part |-> part, sub |-> sub]

Assign(key, val) == [key |-> key, val |-> val]

\* ValueAssignments with every value of a list under the key of a scalar.
ValueAssignments_NoValueIndex(idx, value) ==
  IF value.isList
  THEN [j \in 1..Len(value.items) |->
          Assign(Key(idx, "value", None), value.items[j])]
  ELSE <<Assign(Key(idx, "value", None), value.items[1])>>

ValueAssignments(idx, value) ==
  IF value.isList
  THEN [j \in 1..Len(value.items) |->
          Assign(Key(idx, "value", j - 1), value.items[j])]
  ELSE <<Assign(Key(idx, "value", None), value.items[1])>>

\* The assignments the loop makes for the condition at position idx.
ConditionAssignments(idx, c) ==
  << Assign(Key(idx, "condition", None), LitV(c.condition)),
     Assign(Key(idx, "operator", None), LitV(c.operator)),
     Assign(Key(idx, "type", None), LitV(c.type)) >>
    \o ValueAssignments(idx, c.value)

RECURSIVE QueryHashAssignments(_, _)
QueryHashAssignments(fs, n) ==
  IF n = 0 THEN <<>>
  ELSE QueryHashAssignments(fs, n - 1) \o ConditionAssignments(n - 1, fs[n])

BaseAssignments(a) ==
  << Assign(Key(None, "page", None), IntV(a.page)),
     Assign(Key(None, "per_page", None), IntV(a.per_page)),
     Assign(Key(None, "order_by", None), LitV("created_at")),
     Assign(Key(None, "order_type", None), LitV("desc")),
     Assign(Key(None, "exclude", None), LitV("custom_fields")),
     Assign(Key(None, "include", None), LitV("requester,stats,company,survey")) >>

\* A dictionary after a sequence of assignments: a later one overwrites.
DictOf(assigns) ==
  [k \in {assigns[n].key : n \in 1..Len(assigns)} |->
     assigns[CHOOSE n \in 1..Len(assigns) :
               /\ assigns[n].key = k
               /\ \A m \in 1..Len(assigns) : assigns[m].key = k => m <= n].val]

BuildParams(a, fs) ==
  DictOf(BaseAssignments(a) \o QueryHashAssignments(fs, Len(fs)))

\* filter_tickets up to its request: an error returned, an exception raised
\* by int(), or the request to issue.
FilterPrefix(a) ==
  LET invalid == ValidatePagination(a.page, a.per_page)
      resp == ResponderFilters(a.responder_id)
      fs == MergeQueryHash(
              resp.filters \o HelperFilter("status", a.status)
                           \o HelperFilter("priority", a.priority),
              a.query_hash)
  IN IF invalid # ""
     THEN [ret |-> "error", result |-> ErrorR(invalid), filters |-> <<>>]
     ELSE IF resp.ret
     THEN [ret |-> "error", result |-> ErrorR("Could not resolve responder details"),
           filters |-> <<>>]
     ELSE IF a.status.t # "none" /\ ~CanInt(a.status)
     THEN [ret |-> "raise", result |-> RaisedR("ValueError"), filters |-> resp.filters]
     ELSE IF a.priority.t # "none" /\ ~CanInt(a.priority)
     THEN [ret |-> "raise", result |-> RaisedR("ValueError"),
           filters |-> resp.filters \o HelperFilter("status", a.status)]
     ELSE IF fs = <<>>
     THEN [ret |-> "error",
           result |-> ErrorR("At least one filter condition is required"),
           filters |-> fs]
     ELSE [ret |-> "request", result |-> NoResult, filters |-> fs]

(***************************************************************************)
(* parse_link_header as an operation of its own.                           *)
(***************************************************************************)
LinkUniverse ==
  { NextLink(2), NextLink(0), PrevLink(1), BadLink,
    Link(<<QP("page", 5)>>, "last"),
    Link(<<QPText("q")>>, "next"),
    Link(<<QPText("page"), QP("page", 3)>>, "prev"),
    Link(<<QP("per_page", 100), QP("page", 2)>>, "next") }

Headers == SeqsUpTo(LinkUniverse, MaxLinks)

ParseLinkHeaderCall(link_header) ==
  /\ pc = "idle"
  /\ op' = "parse_link_header"
  /\ args' = [link_header |-> link_header]
  /\ pc' = "done"
  /\ result' = [kind |-> "pagination", value |-> parse_link_header(link_header)]
  /\ pending' = NoReq
  /\ reqs' = ZeroReqs
  /\ hist' = NoHist
  /\ UNCHANGED <<filters, frame, seen>>

(***************************************************************************)
(* Tickets and listings of the upstream service.  MissingKey stands for a  *)
(* key the JSON object does not have.                                      *)
(***************************************************************************)
MissingKey == "(missing)"

Ticket(id, subject, status, priority, responder_id, due_by, fr_due_by) ==
  [id |-> id, subject |-> subject, status |-> status, priority |-> priority,
   responder_id |-> responder_id, due_by |-> due_by, fr_due_by |-> fr_due_by]

TicketUniverse ==
  { Ticket(1, "Printer", 0, 2, 777, "Mon", "Sun"),
    Ticket(2, MissingKey, 9, None, None, MissingKey, MissingKey),
    Ticket(3, "VPN", 5, 4, 5, "Tue", MissingKey) }

TicketLists == SeqsUpTo(TicketUniverse, MaxTickets)

\* The body of a listing: a list of ticket objects, or JSON of another shape.
ListBody(items) == [shape |-> "list", items |-> items]
OtherBody == [shape |-> "other", items |-> <<>>]

ListHeaders == { <<>>, <<NextLink(3), PrevLink(1)>> }

ListResponses ==
  {[outcome |-> o, body |-> OtherBody, link |-> <<>>] :
     o \in {"net", "status", "status_nojson", "json", "shape"}}
    \cup {[outcome |-> "ok", body |-> ListBody(t), link |-> h] :
            t \in TicketLists, h \in ListHeaders}

PaginationOf(current_page, per_page, link) ==
  LET pagination_info == parse_link_header(link)
  IN [current_page |-> current_page,
      next_page |-> Get(pagination_info, "next"),
      prev_page |-> Get(pagination_info, "prev"),
      per_page |-> per_page]

\* filter_tickets from the answer to its request to its return.
FilterResult(a, fs, resp) ==
  CASE resp.outcome = "net" -> ErrorR("An unexpected error occurred")
    [] resp.outcome = "status" -> ErrorR("Failed to filter tickets - upstream body")
    [] resp.outcome = "status_nojson" -> ErrorR("Failed to filter tickets")
    [] resp.outcome = "json" -> ErrorR("An unexpected error occurred")
    [] OTHER -> [kind |-> "ok",
                 tickets |-> resp.body,
                 pagination |-> PaginationOf(a.page, a.per_page, resp.link),
                 filters_applied |-> fs]

(***************************************************************************)
(* Labels and the formatted tickets of the unresolved-ticket operations.   *)
(***************************************************************************)
Label(text, id) == [text |-> text, id |-> id]

_get_status_name(status_id) ==
  CASE status_id = None -> Label("Unknown", None)
    [] status_id = 0 -> Label("Unresolved", None)
    [] status_id = 2 -> Label("Open", None)
    [] status_id = 3 -> Label("Pending", None)
    [] status_id = 4 -> Label("Resolved", None)
    [] status_id = 5 -> Label("Closed", None)
    [] OTHER -> Label("Unknown (id)", status_id)

_get_priority_name(priority_id) ==
  CASE priority_id = None -> Label("Unknown", None)
    [] priority_id = 1 -> Label("Low", None)
    [] priority_id = 2 -> Label("Medium", None)
    [] priority_id = 3 -> Label("High", None)
    [] priority_id = 4 -> Label("Urgent", None)
    [] OTHER -> Label("Unknown (id)", priority_id)

GetText(v, default) == IF v = MissingKey THEN default ELSE v

\* The responder of a formatted ticket.
Unassigned == [kind |-> "text", text |-> "Unassigned", id |-> None]
AgentName(name) == [kind |-> "name", text |-> name, id |-> None]
AgentIdLabel(id) == [kind |-> "text", text |-> "Agent ID: id", id |-> id]

\* A formatted ticket; first_response_due_by is MissingKey when the key is
\* left out, and responder is MissingKey where the operation sets none.
FormatTicket(ticket, responder) ==
  [url |-> ticket.id,
   subject |-> GetText(ticket.subject, "No subject"),
   status |-> _get_status_name(ticket.status),
   priority |-> _get_priority_name(ticket.priority),
   responder |-> responder,
   resolution_due_by |-> GetText(ticket.due_by, ""),
   first_response_due_by |->
     IF ticket.fr_due_by # MissingKey /\ ticket.fr_due_by # ""
     THEN ticket.fr_due_by ELSE MissingKey]

NoResponder == [kind |-> "none", text |-> "", id |-> None]

Summary(text, count, squad) == [text |-> text, count |-> count, squad |-> squad]

FormattedR(summary, formatted, inner) ==
  [kind |-> "formatted",
   summary |-> summary,
   ticket_count |-> Len(formatted),
   tickets |-> formatted,
   pagination |-> inner.pagination,
   raw_tickets |-> inner.tickets]

\* my_unresolved_tickets after a filter_tickets result without an error.
MyFormat(inner) ==
  IF inner.tickets.shape # "list" THEN RaisedR("AttributeError")
  ELSE LET formatted == [k \in 1..Len(inner.tickets.items) |->
                           FormatTicket(inner.tickets.items[k], NoResponder)]
       IN FormattedR(
            Summary("Found n unresolved ticket(s) assigned to you:",
                    Len(formatted), NoneV),
            formatted, inner)

SquadSummary(n, squad) ==
  IF TruthyV(squad)
  THEN Summary("Found n unresolved ticket(s) in squad 'squad':", n, squad)
  ELSE Summary("Found n unresolved ticket(s) in squad:", n, NoneV)

\* The ticket loop of get_all_unresolved_tickets_in_a_squad from the tickets
\* still to format: it runs to the next ticket with a responder, whose name
\* it requests, or to the return.
RECURSIVE SquadAdvance(_, _, _, _)
SquadAdvance(formatted, remaining, inner, squad) ==
  IF remaining = <<>>
  THEN [ret |-> TRUE,
        result |-> FormattedR(SquadSummary(Len(formatted), squad), formatted, inner),
        frame |-> NoFrame]
  ELSE IF Truthy(Head(remaining).responder_id)
  THEN [ret |-> FALSE,
        result |-> NoResult,
        frame |-> [kind |-> "squad", formatted |-> formatted,
                   remaining |-> remaining, inner |-> inner]]
  ELSE SquadAdvance(Append(formatted, FormatTicket(Head(remaining), Unassigned)),
                    Tail(remaining), inner, squad)

SquadStart(inner, squad) ==
  IF inner.tickets.shape # "list"
  THEN [ret |-> TRUE, result |-> RaisedR("AttributeError"), frame |-> NoFrame]
  ELSE SquadAdvance(<<>>, inner.tickets.items, inner, squad)

(***************************************************************************)
(* _resolve_agent_id_to_name                                               *)
(***************************************************************************)
AgentResponses ==
  {[outcome |-> o, name |-> ""] :
     o \in {"net", "status", "status_nojson", "json", "shape"}}
    \cup {[outcome |-> "ok", name |-> n] : n \in {"Jane", ""}}

NameR(name) == [kind |-> "name", name |-> name]

ResolveIdResult(resp) ==
  IF resp.outcome = "ok" /\ resp.name # "" THEN NameR(resp.name) ELSE AbsentR

(***************************************************************************)
(* The operations.  Start begins a call, Return ends it, Request issues    *)
(* the next HTTP request of the running call.                              *)
(***************************************************************************)
Start(name, a) ==
  /\ pc = "idle"
  /\ op' = name
  /\ args' = a
  /\ seen' = {}
  /\ hist' = NoHist

Return(r) ==
  /\ pc' = "done"
  /\ result' = r
  /\ pending' = NoReq

Request(req) ==
  /\ pc' = "await"
  /\ result' = NoResult
  /\ pending' = req

Answered(kind, resp) ==
  /\ pc = "await"
  /\ pending.kind = kind
  /\ seen' = seen \cup {resp.outcome}

\* filter_tickets, called by the caller or by another operation, up to its
\* request or its return.
RunFilter(a, r) ==
  LET pre == FilterPrefix(a)
  IN /\ filters' = pre.filters
     /\ IF pre.ret = "request"
        THEN /\ Request([kind |-> "filter", params |-> BuildParams(a, pre.filters),
                         a |-> a])
             /\ reqs' = Issue(r, "filter")
        ELSE /\ Return(pre.result)
             /\ reqs' = r

FilterArgs(query_hash, responder_id, status, priority, page, per_page) ==
  [query_hash |-> query_hash, responder_id |-> responder_id, status |-> status,
   priority |-> priority, page |-> page, per_page |-> per_page]

NoQueryHash == [some |-> FALSE, list |-> <<>>]
QueryHash(list) == [some |-> TRUE, list |-> list]

FilterTicketsCall(a) ==
  /\ Start("filter_tickets", a)
  /\ RunFilter(a, ZeroReqs)
  /\ frame' = NoFrame

\* The answer to the filtered listing: filter_tickets returns, and the
\* operation that called it goes on with what it returned.
FilterRespond(resp) ==
  /\ Answered("filter", resp)
  /\ LET inner == FilterResult(pending.a, filters, resp)
         squad == IF op = "get_all_unresolved_tickets_in_a_squad"
                  THEN SquadStart(inner, args.squad)
                  ELSE [ret |-> TRUE, result |-> inner, frame |-> NoFrame]
     IN IF op = "filter_tickets" \/ inner.kind = "error"
        THEN Return(inner) /\ reqs' = reqs /\ frame' = NoFrame
        ELSE IF op = "my_unresolved_tickets"
        THEN Return(MyFormat(inner)) /\ reqs' = reqs /\ frame' = NoFrame
        ELSE IF squad.ret
        THEN Return(squad.result) /\ reqs' = reqs /\ frame' = NoFrame
        ELSE /\ Request([kind |-> "agent",
                         id |-> Head(squad.frame.remaining).responder_id])
             /\ reqs' = Issue(reqs, "agent")
             /\ frame' = squad.frame
  /\ UNCHANGED <<op, args, filters, hist>>

\* get_tickets
GetTicketsCall ==
  /\ Start("get_tickets", NoArgs)
  /\ Request([kind |-> "tickets", page |-> 1, per_page |-> 30])
  /\ reqs' = Issue(ZeroReqs, "tickets")
  /\ UNCHANGED <<filters, frame>>

GetTicketsResult(resp) ==
  CASE resp.outcome = "net" -> ErrorR("An unexpected error occurred")
    [] resp.outcome \in {"status", "status_nojson"} -> ErrorR("Failed to fetch tickets")
    [] resp.outcome = "json" -> ErrorR("An unexpected error occurred")
    [] OTHER -> [kind |-> "ok",
                 tickets |-> resp.body,
                 pagination |-> PaginationOf(1, 30, resp.link)]

GetTicketsRespond(resp) ==
  /\ Answered("tickets", resp)
  /\ Return(GetTicketsResult(resp))
  /\ UNCHANGED <<op, args, reqs, filters, frame, hist>>

\* get_ticket, called by the caller or by search_tickets.  The body of an
\* answer is a ticket object, the error object of a non-2xx answer, or JSON
\* of another shape.
ValueR(body) == [kind |-> "value", body |-> body]

TicketBody(ticket) == [shape |-> "ticket", ticket |-> ticket]
ErrorBody == [shape |-> "error_body", ticket |-> Ticket(0, MissingKey, None, None, None, MissingKey, MissingKey)]
OddBody == [shape |-> "other", ticket |-> Ticket(0, MissingKey, None, None, None, MissingKey, MissingKey)]

TicketResponses ==
  {[outcome |-> o, body |-> OddBody] : o \in {"net", "status_nojson", "json", "shape"}}
    \cup {[outcome |-> "status", body |-> ErrorBody]}
    \cup {[outcome |-> "ok", body |-> TicketBody(t)] : t \in TicketUniverse}

\* response.json() of any answer that arrived, whatever its status.
JsonResult(resp) ==
  CASE resp.outcome = "net" -> RaisedR("ConnectError")
    [] resp.outcome \in {"status_nojson", "json"} -> RaisedR("JSONDecodeError")
    [] OTHER -> ValueR(resp.body)

GetTicketCall(ticket_id) ==
  /\ Start("get_ticket", [ticket_id |-> ticket_id])
  /\ Request([kind |-> "ticket", ticket_id |-> ticket_id])
  /\ reqs' = Issue(ZeroReqs, "ticket")
  /\ UNCHANGED <<filters, frame>>

\* ticket["subject"] of what get_ticket returned.
SubjectOf(body) ==
  IF body.shape = "ticket" /\ body.ticket.subject # MissingKey
  THEN [ok |-> TRUE, subject |-> body.ticket.subject, exc |-> ""]
  ELSE IF body.shape = "other"
  THEN [ok |-> FALSE, subject |-> "", exc |-> "TypeError"]
  ELSE [ok |-> FALSE, subject |-> "", exc |-> "KeyError"]

\* Answers the ticket lookup: get_ticket returns, and search_tickets goes
\* on to its search with the subject as the query.
TicketRespond(resp) ==
  /\ Answered("ticket", resp)
  /\ LET got == JsonResult(resp)
         subject == SubjectOf(resp.body)
     IN IF op = "get_ticket" \/ got.kind = "raised"
        THEN Return(got) /\ reqs' = reqs
        ELSE IF ~subject.ok
        THEN Return(RaisedR(subject.exc)) /\ reqs' = reqs
        ELSE /\ Request([kind |-> "search", query |-> subject.subject])
             /\ reqs' = Issue(reqs, "search")
  /\ UNCHANGED <<op, args, filters, frame, hist>>

\* search_tickets
SearchCall(ticket_id, query) ==
  /\ Start("search_tickets", [ticket_id |-> ticket_id, query |-> query])
  /\ IF ticket_id # None
     THEN /\ Request([kind |-> "ticket", ticket_id |-> ticket_id])
          /\ reqs' = Issue(ZeroReqs, "ticket")
     ELSE /\ Request([kind |-> "search", query |-> query])
          /\ reqs' = Issue(ZeroReqs, "search")
  /\ UNCHANGED <<filters, frame>>

SearchRespond(resp) ==
  /\ Answered("search", resp)
  /\ Return(JsonResult(resp))
  /\ UNCHANGED <<op, args, reqs, filters, frame, hist>>

\* find_similar_tickets_using_copilot
CopilotCall(ticket_id) ==
  /\ Start("find_similar_tickets_using_copilot", [ticket_id |-> ticket_id])
  /\ IF ticket_id = None \/ ticket_id = 0 \/ ticket_id < 1
     THEN /\ Return(ErrorR("Invalid ticket_id. Must be a positive integer."))
          /\ reqs' = ZeroReqs
     ELSE /\ Request([kind |-> "copilot", ticket_id |-> ticket_id])
          /\ reqs' = Issue(ZeroReqs, "copilot")
  /\ UNCHANGED <<filters, frame>>

CopilotResult(resp) ==
  CASE resp.outcome = "net" -> ErrorR("An unexpected error occurred")
    [] resp.outcome \in {"status", "status_nojson"} ->
         ErrorR("Failed to find similar tickets")
    [] resp.outcome = "json" -> ErrorR("An unexpected error occurred")
    [] OTHER -> ValueR(resp.body)

CopilotRespond(resp) ==
  /\ Answered("copilot", resp)
  /\ Return(CopilotResult(resp))
  /\ UNCHANGED <<op, args, reqs, filters, frame, hist>>

\* _get_current_agent_id: the id of the answer, None for any failure and
\* for an answer without agent.id.
MeResponses ==
  {[outcome |-> o, id |-> None] :
     o \in {"net", "status", "status_nojson", "json", "shape"}}
    \cup {[outcome |-> "ok", id |-> n] : n \in {777, 0}}

CurrentAgentId(resp) == IF resp.outcome = "ok" THEN resp.id ELSE None

\* my_unresolved_tickets
MyUnresolvedCall ==
  /\ Start("my_unresolved_tickets", NoArgs)
  /\ Request([kind |-> "me"])
  /\ reqs' = Issue(ZeroReqs, "me")
  /\ UNCHANGED <<filters, frame>>

MyQueryHash(assignee_id) ==
  QueryHash(<< Cond("status", "is_in", "default", ListOf(<<IntV(0)>>)),
               Cond("responder_id", "is_in", "default",
                    ListOf(<<IntV(assignee_id)>>)) >>)

MeRespond(resp) ==
  /\ Answered("me", resp)
  /\ LET assignee_id == CurrentAgentId(resp)
     IN IF ~Truthy(assignee_id)
        THEN /\ Return(ErrorR("Could not fetch current agent ID"))
             /\ reqs' = reqs
             /\ filters' = filters
        ELSE RunFilter(FilterArgs(MyQueryHash(assignee_id), NoneV, NoneV, NoneV,
                                  1, 30),
                       reqs)
  /\ hist' = [hist EXCEPT !.me = CurrentAgentId(resp)]
  /\ UNCHANGED <<op, args, frame>>

\* get_all_unresolved_tickets_in_a_squad
SquadQueryHash(squad) ==
  QueryHash(<< Cond("status", "is_in", "default", ListOf(<<IntV(0)>>)),
               Cond("freshservice_teams", "is_in", "custom_field",
                    ListOf(<<LitV("L2 Teams")>>)),
               Cond("team_member", "is_in", "custom_field", ListOf(<<squad>>)) >>)

SquadCall(squad) ==
  /\ Start("get_all_unresolved_tickets_in_a_squad", [squad |-> squad])
  /\ RunFilter(FilterArgs(SquadQueryHash(squad), NoneV, NoneV, NoneV, 1, 30),
               ZeroReqs)
  /\ frame' = NoFrame

\* _resolve_agent_id_to_name, called on its own or for a ticket of the
\* squad listing.
ResolveIdCall(responder_id) ==
  /\ Start("_resolve_agent_id_to_name", [responder_id |-> responder_id])
  /\ IF ~Truthy(responder_id)
     THEN Return(AbsentR) /\ reqs' = ZeroReqs
     ELSE /\ Request([kind |-> "agent", id |-> responder_id])
          /\ reqs' = Issue(ZeroReqs, "agent")
  /\ UNCHANGED <<filters, frame>>

AgentRespond(resp) ==
  /\ Answered("agent", resp)
  /\ LET resolved_name == ResolveIdResult(resp)
         ticket == Head(frame.remaining)
         responder == IF resolved_name.kind = "name"
                      THEN AgentName(resolved_name.name)
                      ELSE AgentIdLabel(ticket.responder_id)
         squad == SquadAdvance(Append(frame.formatted, FormatTicket(ticket, responder)),
                               Tail(frame.remaining), frame.inner, args.squad)
     IN IF op = "_resolve_agent_id_to_name"
        THEN Return(resolved_name) /\ reqs' = reqs /\ frame' = frame
        ELSE IF squad.ret
        THEN Return(squad.result) /\ reqs' = reqs /\ frame' = NoFrame
        ELSE /\ Request([kind |-> "agent",
                         id |-> Head(squad.frame.remaining).responder_id])
             /\ reqs' = Issue(reqs, "agent")
             /\ frame' = squad.frame
  /\ UNCHANGED <<op, args, filters, hist>>

(***************************************************************************)
(* The inputs the caller draws from.                                       *)
(***************************************************************************)
Pages == {0, 1, 2}
PerPages == {0, 1, 100, 101}

ResponderInputs == {NoneV, StrV(<<>>), StrV(<<"1", "2">>), StrV(<<"1", "a">>)}
StatusInputs == {NoneV, IntV(0), StrV(<<"2">>), StrV(<<"z">>)}
PriorityInputs == {NoneV, IntV(2), StrV(<<"z">>)}

CondUniverse ==
  { Cond("team_member", "is_in", "custom_field", ListOf(<<LitV("Dracarys")>>)),
    Cond("status", "is", "default", ScalarOf(IntV(2))),
    Cond("tag", "is_in", "default", ListOf(<<>>)),
    Cond("priority", "is_in", "default", ListOf(<<IntV(1), IntV(2)>>)) }

QueryHashInputs ==
  {NoQueryHash} \cup {QueryHash(q) : q \in SeqsUpTo(CondUniverse, MaxQH)}

FilterInputs ==
  {FilterArgs(q, r, st, pr, pg, pp) :
     q \in QueryHashInputs, r \in ResponderInputs, st \in StatusInputs,
     pr \in PriorityInputs, pg \in Pages, pp \in PerPages}

TicketIds == {None, 0, 1}
Queries == {"printer"}
SquadInputs == {NoneV, LitV("Dracarys")}
AgentIds == {None, 0, 5, 777}

Init ==
  /\ op = "none"
  /\ pc = "idle"
  /\ args = NoArgs
  /\ pending = NoReq
  /\ reqs = ZeroReqs
  /\ filters = <<>>
  /\ frame = NoFrame
  /\ seen = {}
  /\ result = NoResult
  /\ hist = NoHist

\* The caller's calls, and the upstream service's answers to the pending
\* request.
Next ==
  \/ pc = "idle" /\ \E n \in NameInputs : ResolveCall(n)
  \/ pc = "idle" /\ \E h \in Headers : ParseLinkHeaderCall(h)
  \/ pc = "idle" /\ \E a \in FilterInputs : FilterTicketsCall(a)
  \/ GetTicketsCall
  \/ \E t \in TicketIds \ {None} : GetTicketCall(t)
  \/ \E t \in TicketIds, q \in Queries : SearchCall(t, q)
  \/ \E t \in TicketIds : CopilotCall(t)
  \/ MyUnresolvedCall
  \/ \E s \in SquadInputs : SquadCall(s)
  \/ \E i \in AgentIds : ResolveIdCall(i)
  \/ pending.kind = "agents" /\ \E r \in DirResponses(pending.page) : ResolveRespond(r)
  \/ pending.kind = "filter" /\ \E r \in ListResponses : FilterRespond(r)
  \/ pending.kind = "tickets" /\ \E r \in ListResponses : GetTicketsRespond(r)
  \/ \E r \in TicketResponses : TicketRespond(r)
  \/ \E r \in TicketResponses : SearchRespond(r)
  \/ \E r \in TicketResponses : CopilotRespond(r)
  \/ \E r \in MeResponses : MeRespond(r)
  \/ \E r \in AgentResponses : AgentRespond(r)

Spec == Init /\ [][Next]_vars

(***************************************************************************)
(* Properties.                                                             *)
(***************************************************************************)
ValidPagination == args.page >= 1 /\ args.per_page >= 1 /\ args.per_page <= 100

\* C1: filter_tickets with page < 1, or per_page < 1 or per_page > 100,
\* returns an error whatever its other arguments are, and has issued no
\* HTTP request.
C1_BadPaginationIsRejected ==
  (op = "filter_tickets" /\ ~ValidPagination)
    => (pc = "done" /\ result.kind = "error" /\ reqs = ZeroReqs)

C1_Witness ==
  /\ op = "filter_tickets"
  /\ args.page = 1
  /\ args.per_page = 101
  /\ TruthyV(args.responder_id)
  /\ args.status = StrV(<<"z">>)
  /\ args.query_hash.list # <<>>
  /\ result.kind = "error"

\* What the specification's compiler builds from the arguments.
Given(v) == v.t # "none" /\ v # StrV(<<>>)

ExpectedFilterSet(a) ==
  (IF Given(a.responder_id)
   THEN <<Cond("responder_id", "is_in", "default", ListOf(<<a.responder_id>>))>>
   ELSE <<>>)
  \o (IF a.status.t # "none"
      THEN <<Cond("status", "is_in", "default", ListOf(<<IntOf(a.status)>>))>>
      ELSE <<>>)
  \o (IF a.priority.t # "none"
      THEN <<Cond("priority", "is_in", "default", ListOf(<<IntOf(a.priority)>>))>>
      ELSE <<>>)
  \o a.query_hash.list

Coercible(v) == v.t = "none" \/ CanInt(v)

\* C2: with valid pagination, the FilterSet filter_tickets builds is the
\* responder_id condition (only if an assignee is given), the status
\* condition with the integer-coerced value (only if status is given), the
\* priority condition (only if priority is given), then the caller's
\* query_hash conditions in order and unmodified.
C2_FilterSetIsAsSpecified ==
  (/\ op = "filter_tickets"
   /\ ValidPagination
   /\ Coercible(args.status)
   /\ Coercible(args.priority))
    => filters = ExpectedFilterSet(args)

\* C3: filter_tickets with valid pagination and no status, priority,
\* assignee or query_hash condition fails with the "at least one filter
\* condition is required" error and issues no HTTP request.
C3_EmptyFilterIsMissingFilterError ==
  (/\ op = "filter_tickets"
   /\ ValidPagination
   /\ ~Given(args.responder_id)
   /\ args.status.t = "none"
   /\ args.priority.t = "none"
   /\ args.query_hash.list = <<>>)
    => (/\ pc = "done"
        /\ result = ErrorR("At least one filter condition is required")
        /\ reqs = ZeroReqs)

\* Identity resolution returns absent for the name whatever the directory
\* answers: it is no integer literal and matches no agent there is.
NeverResolves(agent_name) ==
  /\ ~IsIntLiteral(agent_name)
  /\ \A agent \in AgentUniverse : ~AgentMatches(agent, agent_name)

InFilterSet(fs, v) ==
  \E k \in 1..Len(fs) : \E j \in 1..Len(fs[k].value.items) : fs[k].value.items[j] = v

\* C4: when the assignee given to filter_tickets cannot be resolved, the
\* operation fails with an error, issues no ticket-filter request and never
\* places the assignee in the FilterSet.
C4_UnresolvedAssigneeIsRejected ==
  (/\ op = "filter_tickets"
   /\ ValidPagination
   /\ Given(args.responder_id)
   /\ NeverResolves(args.responder_id.s))
    => (/\ pc = "done"
        /\ result.kind = "error"
        /\ reqs["filter"] = 0
        /\ ~InFilterSet(filters, args.responder_id))

\* C5: one invocation of _resolve_agent_name_to_id fetches at most 99
\* directory pages, the first of them page 1.
C5_AtMost99DirectoryPages ==
  (op = "_resolve_agent_name_to_id")
    => (/\ reqs["agents"] <= 99
        /\ (reqs["agents"] = 1 /\ pc = "await" => pending.page = 1))

\* The page number the specification's codec records for a relation: that
\* of the (last) matching entry with the relation and a page=<digits>
\* component, None when there is none.
EntriesOf(link_header, rel) ==
  {k \in 1..Len(link_header) :
     /\ link_header[k].wf
     /\ link_header[k].rel = rel
     /\ HasPage(link_header[k].url)}

ExpectedPage(link_header, rel) ==
  IF EntriesOf(link_header, rel) = {} THEN None
  ELSE PageOf(link_header[CHOOSE k \in EntriesOf(link_header, rel) :
                            \A j \in EntriesOf(link_header, rel) : j <= k].url)

\* C6: parse_link_header returns a mapping with exactly the keys next and
\* prev, each the page number of the entry with that relation or absent;
\* entries with another relation and entries that do not match change
\* nothing.
C6_LinkHeaderHasOnlyNextAndPrev ==
  (op = "parse_link_header" /\ pc = "done")
    => (/\ DOMAIN result.value = {"next", "prev"}
        /\ \A rel \in {"next", "prev"} :
             Get(result.value, rel) = ExpectedPage(args.link_header, rel))

PublicOps ==
  {"get_tickets", "filter_tickets", "get_ticket", "search_tickets",
   "find_similar_tickets_using_copilot", "my_unresolved_tickets",
   "get_all_unresolved_tickets_in_a_squad"}

\* C7: a public operation that met an upstream failure (network failure,
\* non-2xx status, malformed JSON, body of unexpected shape) returns to its
\* caller a result with an error field and never propagates a raw
\* exception; stated here is the second half, which the first implies.
C7_FailuresNeverPropagate ==
  (pc = "done" /\ op \in PublicOps /\ seen \cap Failures # {})
    => result.kind # "raised"

\* The formatted ticket the specification gives for a ticket of a squad
\* listing: the labels of its ids, and a responder that is Unassigned, a
\* resolved name, or the Agent ID fallback.
SquadTicketOk(formatted, ticket) ==
  /\ formatted.status = _get_status_name(ticket.status)
  /\ formatted.priority = _get_priority_name(ticket.priority)
  /\ IF ~Truthy(ticket.responder_id) THEN formatted.responder = Unassigned
     ELSE \/ formatted.responder.kind = "name"
          \/ formatted.responder = AgentIdLabel(ticket.responder_id)

\* C8: get_all_unresolved_tickets_in_a_squad(squad=S), the upstream service
\* answering every request it gets, issues the filtered listing and returns
\* its n tickets formatted, with a summary of n ticket(s) in squad S.
C8_SquadListingIsFormatted ==
  (/\ op = "get_all_unresolved_tickets_in_a_squad"
   /\ TruthyV(args.squad)
   /\ pc = "done"
   /\ seen \cap {"net", "status", "status_nojson", "json"} = {})
    => (/\ result.kind = "formatted"
        /\ reqs["filter"] = 1
        /\ result.raw_tickets.shape = "list"
        /\ result.ticket_count = Len(result.raw_tickets.items)
        /\ Len(result.tickets) = result.ticket_count
        /\ result.summary = SquadSummary(result.ticket_count, args.squad)
        /\ \A k \in 1..Len(result.tickets) :
             SquadTicketOk(result.tickets[k], result.raw_tickets.items[k]))

\* A decoder matching the flat encoding: the conditions are those with a
\* [condition] key; a value is the scalar under [value] if that key is
\* there, else the list under [value][0], [value][1], ...
IndexedValues(params, idx) ==
  {k \in DOMAIN params : k.idx = idx /\ k.part = "value" /\ k.sub # None}

DecodeValue(params, idx) ==
  IF Key(idx, "value", None) \in DOMAIN params
  THEN ScalarOf(params[Key(idx, "value", None)])
  ELSE ListOf([j \in 1..Cardinality(IndexedValues(params, idx)) |->
                 params[Key(idx, "value", j - 1)]])

Decode(params) ==
  [n \in 1..Cardinality({k \in DOMAIN params : k.part = "condition"}) |->
     Cond(params[Key(n - 1, "condition", None)].y,
          params[Key(n - 1, "operator", None)].y,
          params[Key(n - 1, "type", None)].y,
          DecodeValue(params, n - 1))]

RECURSIVE ParamCount(_)
ParamCount(fs) ==
  IF fs = <<>> THEN 0
  ELSE ParamCount(Tail(fs)) + 3
         + (IF Head(fs).value.isList THEN Len(Head(fs).value.items) ELSE 1)

\* C9: the parameters of a filtered-listing request decode back to the
\* FilterSet (field, operator, kind and the values in order, for scalar
\* and list values), and no two conditions or values share a key.
C9_EncodingIsLossless ==
  (pending.kind = "filter")
    => (/\ Decode(pending.params) = filters
        /\ Cardinality(DOMAIN pending.params) = 6 + ParamCount(filters))

C9_Witness ==
  /\ pending.kind = "filter"
  /\ Len(filters) = 3
  /\ filters[1].value = ListOf(<<StrV(<<"1", "a">>)>>)
  /\ filters[2].value = ListOf(<<>>)
  /\ ~filters[3].value.isList

\* str(n) of an int, for the digits the model has.
DigitChar(d) == CASE d = 0 -> "0" [] d = 1 -> "1" [] OTHER -> "2"

RECURSIVE NatStr(_)
NatStr(n) ==
  IF n < 10 THEN <<DigitChar(n)>> ELSE Append(NatStr(n \div 10), DigitChar(n % 10))

PythonStr(n) == IF n < 0 THEN <<"-">> \o NatStr(0 - n) ELSE NatStr(n)

\* C10: _resolve_agent_name_to_id on an integer literal returns that
\* integer without an HTTP request, and resolving the text of the returned
\* id returns the same id again.
C10_NumericShortCircuit ==
  (op = "_resolve_agent_name_to_id" /\ IsIntLiteral(args.agent_name))
    => (/\ pc = "done"
        /\ reqs = ZeroReqs
        /\ result.kind = "id"
        /\ (args.agent_name = <<"1", "2">> => result.id = 12)
        /\ (args.agent_name = <<"-", "1">> => result.id = 0 - 1)
        /\ (args.agent_name = <<"0", "1">> => result.id = 1)
        /\ ResolveStart(PythonStr(result.id)) = [ret |-> TRUE, value |-> result, page |-> 0])

C10_Witness ==
  /\ op = "_resolve_agent_name_to_id"
  /\ args.agent_name = <<"1", "2">>
  /\ pc = "done"
  /\ result = IdR(12)

NamedLookup ==
  /\ op = "_resolve_agent_name_to_id"
  /\ args.agent_name # <<>>
  /\ ~IsIntLiteral(args.agent_name)

\* C11: for a non-numeric query _resolve_agent_name_to_id returns the id of
\* the first record, in the order the pages are fetched and in record order
\* within a page, whose name or email contains the query up to case; no
\* page is requested after the one holding that record, and the result is
\* absent only if no fetched record matches.
C11_FirstMatchInFetchOrder ==
  NamedLookup
    => (/\ ~hist.afterMatch
        /\ (pc = "done"
              => LET m == MentioningRecords(hist.final.agents, args.agent_name)
                 IN IF m = {} THEN result = AbsentR
                    ELSE \E k \in m :
                           /\ \A j \in m : k <= j
                           /\ result = IdR(hist.final.agents[k].id)))

\* The first page holds no match; the second holds a record matching by
\* email and then a record matching by name.
C11_Witness ==
  /\ op = "_resolve_agent_name_to_id"
  /\ args.agent_name = <<"a">>
  /\ pc = "done"
  /\ reqs["agents"] = 2
  /\ hist.final.agents
       = << Agent(8, <<>>, <<"A", "z">>), Agent(777, <<"J", "a">>, <<"j", "1">>) >>
  /\ result = IdR(8)

\* C12: in _resolve_agent_name_to_id, once a directory request fails, or
\* returns an empty page, or returns a page without a matching record whose
\* Link header gives no next page, no further directory request is issued
\* and the operation returns absent without raising.
C12_DeadEndReturnsAbsent ==
  (op = "_resolve_agent_name_to_id")
    => (/\ ~hist.afterStop
        /\ (pc = "done" /\ hist.final.outcome # "none"
                        /\ EndsPaging(hist.final, args.agent_name)
              => (/\ result = AbsentR
                  /\ result.kind # "raised"
                  /\ pending = NoReq)))

\* The second directory request fails with a non-2xx status.
C12_Witness ==
  /\ op = "_resolve_agent_name_to_id"
  /\ pc = "done"
  /\ reqs["agents"] = 2
  /\ hist.final.outcome = "status"
  /\ result = AbsentR

\* C13: my_unresolved_tickets, when the who-am-I lookup yields agent id A,
\* issues exactly one filtered-listing request carrying the FilterSet
\* [status is_in [0], responder_id is_in [A]] and on upstream success
\* returns its n tickets formatted with ticket_count n and no error; when
\* the lookup yields absent it returns an error and issues no
\* filtered-listing request.
C13_MyUnresolvedListsOwnTickets ==
  (op = "my_unresolved_tickets" /\ pc = "done")
    => IF Truthy(hist.me)
       THEN /\ reqs["filter"] = 1
            /\ filters = MyQueryHash(hist.me).list
            /\ (seen \cap Failures = {}
                  => (/\ result.kind = "formatted"
                      /\ result.raw_tickets.shape = "list"
                      /\ result.ticket_count = Len(result.raw_tickets.items)
                      /\ Len(result.tickets) = result.ticket_count))
       ELSE /\ result.kind = "error"
            /\ reqs["filter"] = 0

====
